---------------------------- MODULE Spec2Model ----------------------------
(***************************************************************************)
(* Runtime-checked borrowing of the entries of an RtMap (src/src/rt_map.rs)*)
(* and of an RtVec (src/src/rt_vec.rs).                                    *)
(*                                                                         *)
(* A container stores one Cell per key / index.  A Cell is a value and a   *)
(* borrow flag (an AtomicUsize: 0 = unborrowed, n = n shared borrows,      *)
(* usize::MAX = one exclusive borrow).  Ref and RefMut are the guards the  *)
(* container hands out; each holds a pointer to the flag of its cell.      *)
(*                                                                         *)
(* The record of a cell carries, next to `value` and `flag`, two ghost     *)
(* counters: `refs` and `ref_muts`, the number of live Ref / RefMut        *)
(* objects whose inner guard points at this cell.  The code never reads    *)
(* them; they are what the flag is supposed to account for.                *)
(*                                                                         *)
(* Methods taking `&mut self` (insert, remove, push, ...) can only be      *)
(* called while no guard borrowed from `&self` is alive: that is the       *)
(* compiler's rule, and it is the enabling condition ExclusiveAccess.      *)
(***************************************************************************)
EXTENDS Integers, Sequences, FiniteSets, TLC

\* ------------------------------------------------------------------ bounds
MaxKey == 2
MaxLen == 2
MaxGuards == 2
FlagBits == 3

\* The number of threads that race on one entry.
NumThreads == 2

\* The longest RtVec of the specification of push / insert / remove / swap_remove.
MaxStructLen == 4

Keys == 1..MaxKey
Indices == 0..MaxLen
StructIndices == 0..MaxStructLen

\* Stored values are opaque to the borrow logic: two distinct ones tell a written
\* value from the original.
Values == {0, 1}

\* usize::MAX at the modelled width, and the modulus of usize arithmetic.
Modulus == 2 ^ FlagBits
UsizeMax == Modulus - 1

NoKey == -1
NoVal == -1

\* kind: which container the program holds, "RtMap" or "RtVec" (fixed at creation)
\* map:  the RtMap: a function from the keys present to their cells
\* vec:  the RtVec: the sequence of its cells
\* last: the call made last and what its caller got back
\* prev: the method called before it
\* entry_ref: the key whose RefMut<'a> made by Entry is alive (it holds the
\*       `&'a mut` borrow of the whole map), or NoKey
\* threads: the calls of threads that share `&self` and race on one entry: for
\*       each thread its request, its position in it, the flag value it
\*       loaded and its result; empty while a single owner makes the calls
\* raw:  the guards taken on cells reached through get_raw or Deref: for each
\*       key or index the number of CellRef and of CellRefMut alive; empty
\*       while cells are borrowed through the container's methods only
VARIABLES kind, map, vec, last, prev, entry_ref, threads, raw

vars == <<kind, map, vec, last, prev, entry_ref, threads, raw>>

\* ---------------------------------------------------------------- the Cell

Cell_new(v) == [value |-> v, flag |-> 0, refs |-> 0, ref_muts |-> 0]

\* check_flag_read: fails when the flag is the exclusive sentinel, else flag + 1.
Cell_try_borrow(c) ==
    IF c.flag = UsizeMax
    THEN [res |-> "BorrowConflictImm", cell |-> c]
    ELSE [res |-> "Ok", cell |-> [c EXCEPT !.flag = (c.flag + 1) % Modulus]]

Cell_borrow(c) ==
    IF c.flag = UsizeMax
    THEN [res |-> "PanicAlreadyBorrowedMutably", cell |-> c]
    ELSE [res |-> "Ok", cell |-> [c EXCEPT !.flag = (c.flag + 1) % Modulus]]

\* check_flag_write: succeeds only from 0, and sets the sentinel.
Cell_try_borrow_mut(c) ==
    IF c.flag = 0
    THEN [res |-> "Ok", cell |-> [c EXCEPT !.flag = UsizeMax]]
    ELSE [res |-> "BorrowConflictMut", cell |-> c]

Cell_borrow_mut(c) ==
    IF c.flag = 0
    THEN [res |-> "Ok", cell |-> [c EXCEPT !.flag = UsizeMax]]
    ELSE [res |-> "PanicAlreadyBorrowed", cell |-> c]

\* get_mut: with the cell owned exclusively, the value is reached without
\* consulting the flag; w is what the caller leaves in it.
Cell_get_mut(c, w) == [c EXCEPT !.value = w]

\* The two atomic operations check_flag_read is made of: a load of the flag, and
\* a compare-exchange that writes `new` only if the flag still is `current`.
Cell_flag_load(c) == c.flag

Cell_flag_compare_exchange(c, current, new) ==
    IF c.flag = current
    THEN [ok |-> TRUE, cell |-> [c EXCEPT !.flag = new]]
    ELSE [ok |-> FALSE, cell |-> c]

CellRef_clone(c) == [c EXCEPT !.flag = (c.flag + 1) % Modulus]

CellRef_drop(c) == [c EXCEPT !.flag = (c.flag + Modulus - 1) % Modulus]

CellRefMut_drop(c) == [c EXCEPT !.flag = 0]

\* ------------------------------------------------------------ Ref / RefMut

Ref_new(c) == [c EXCEPT !.refs = c.refs + 1]

RefMut_new(c) == [c EXCEPT !.ref_muts = c.ref_muts + 1]

\* Mutant: the guard is duplicated as a plain copy, the flag is not touched.
Ref_clone_plain_copy(c) == Ref_new(c)

Ref_clone(c) == Ref_new(CellRef_clone(c))

\* Mutant: the drop of a Ref releases the shared borrow twice.
Ref_drop_releases_twice(c) == [CellRef_drop(CellRef_drop(c)) EXCEPT !.refs = c.refs - 1]

Ref_drop(c) == [CellRef_drop(c) EXCEPT !.refs = c.refs - 1]

\* Mutant: the RefMut goes away without releasing the flag.
RefMut_drop_keeps_flag(c) == [c EXCEPT !.ref_muts = c.ref_muts - 1]

\* Mutant: dropping the RefMut leaves the entry with one shared borrow.
RefMut_drop_downgrades(c) == [c EXCEPT !.flag = 1, !.ref_muts = c.ref_muts - 1]

RefMut_drop(c) == [CellRefMut_drop(c) EXCEPT !.ref_muts = c.ref_muts - 1]

\* Mutant: the write lands in a copy of the value.
RefMut_deref_mut_on_copy(c, v) == c

\* Deref: the guard reads the value of the cell it points at.
Ref_deref(c) == c.value

RefMut_deref(c) == c.value

\* Mutant: the guards are compared field by field, flag included.
Ref_eq_with_flag(c, d) == c.value = d.value /\ c.flag = d.flag

\* PartialEq: `r_self == r_other` on the two values dereferenced.
Ref_eq(c, d) == Ref_deref(c) = Ref_deref(d)

RefMut_eq(c, d) == RefMut_deref(c) = RefMut_deref(d)

RefMut_deref_mut(c, v) == [c EXCEPT !.value = v]

\* ------------------------------------------------------------------- RtMap

\* Mutant: the value is replaced inside the cell the key already has.
RtMap_insert_in_place(m, k, v) ==
    [map |-> [x \in (DOMAIN m) \cup {k} |->
                IF x # k THEN m[x]
                ELSE IF k \in DOMAIN m THEN [m[k] EXCEPT !.value = v] ELSE Cell_new(v)],
     res |-> IF k \in DOMAIN m THEN "Some" ELSE "None",
     val |-> IF k \in DOMAIN m THEN m[k].value ELSE NoVal]

\* Mutant: a key that is present keeps its cell, and the new value is handed back.
RtMap_insert_keeps_present(m, k, v) ==
    [map |-> [x \in (DOMAIN m) \cup {k} |-> IF x \in DOMAIN m THEN m[x] ELSE Cell_new(v)],
     res |-> IF k \in DOMAIN m THEN "Some" ELSE "None",
     val |-> IF k \in DOMAIN m THEN v ELSE NoVal]

RtMap_insert(m, k, v) ==
    [map |-> [x \in (DOMAIN m) \cup {k} |-> IF x = k THEN Cell_new(v) ELSE m[x]],
     res |-> IF k \in DOMAIN m THEN "Some" ELSE "None",
     val |-> IF k \in DOMAIN m THEN m[k].value ELSE NoVal]

\* Entry::new(self.0.entry(k)): the std entry of k in the map, which is Vacant
\* or Occupied.
RtMap_entry(m, k) == [map |-> m, key |-> k, vacant |-> k \notin DOMAIN m]

\* Mutant: the cell found or made is borrowed immutably.
Entry_or_insert_with_shared(e, x) ==
    LET inner == IF e.vacant THEN Cell_new(x) ELSE e.map[e.key]
        r     == Cell_borrow(inner)
    IN  [res |-> r.res, val |-> IF r.res = "Ok" THEN r.cell.value ELSE NoVal,
         evals |-> IF e.vacant THEN 1 ELSE 0,
         map |-> [j \in DOMAIN e.map \cup {e.key} |->
                    IF j = e.key
                    THEN IF r.res = "Ok" THEN RefMut_new(r.cell) ELSE r.cell
                    ELSE e.map[j]]]

\* Mutant: the closure always runs and its result replaces the value.
Entry_or_insert_with_overwrites(e, x) ==
    LET r == Cell_borrow_mut(Cell_new(x)) IN
    [res |-> r.res, val |-> r.cell.value, evals |-> 1,
     map |-> [j \in DOMAIN e.map \cup {e.key} |->
                IF j = e.key THEN RefMut_new(r.cell) ELSE e.map[j]]]

\* or_insert_with(f), f returning x: std's or_insert_with runs the closure
\* `|| Cell::new(f())` only on a Vacant entry; the cell found or made is then
\* borrowed mutably.
Entry_or_insert_with(e, x) ==
    LET evals == IF e.vacant THEN 1 ELSE 0
        inner == IF e.vacant THEN Cell_new(x) ELSE e.map[e.key]
        r     == Cell_borrow_mut(inner)
    IN  [res |-> r.res, val |-> IF r.res = "Ok" THEN r.cell.value ELSE NoVal,
         evals |-> evals,
         map |-> [j \in DOMAIN e.map \cup {e.key} |->
                    IF j = e.key
                    THEN IF r.res = "Ok" THEN RefMut_new(r.cell) ELSE r.cell
                    ELSE e.map[j]]]

\* or_insert(v) is or_insert_with(move || v).
Entry_or_insert(e, x) == Entry_or_insert_with(e, x)

\* Mutant: the value is handed back and the entry stays.
RtMap_remove_leaves_entry(m, k) ==
    [map |-> m,
     res |-> IF k \in DOMAIN m THEN "Some" ELSE "None",
     val |-> IF k \in DOMAIN m THEN m[k].value ELSE NoVal]

RtMap_remove(m, k) ==
    [map |-> [x \in (DOMAIN m) \ {k} |-> m[x]],
     res |-> IF k \in DOMAIN m THEN "Some" ELSE "None",
     val |-> IF k \in DOMAIN m THEN m[k].value ELSE NoVal]

\* Mutant: the value is reached through an exclusive borrow that is never
\* released.
RtMap_get_resource_mut_borrows(m, k, w) ==
    IF k \in DOMAIN m
    THEN [res |-> "Some", val |-> m[k].value,
          map |-> [m EXCEPT ![k] = Cell_get_mut(Cell_borrow_mut(m[k]).cell, w)]]
    ELSE [res |-> "None", val |-> NoVal, map |-> m]

\* get_resource_mut: `self.0.get_mut(k).map(Cell::get_mut)`; the caller reads the
\* value, then leaves w in it.
RtMap_get_resource_mut(m, k, w) ==
    IF k \in DOMAIN m
    THEN [res |-> "Some", val |-> m[k].value,
          map |-> [m EXCEPT ![k] = Cell_get_mut(m[k], w)]]
    ELSE [res |-> "None", val |-> NoVal, map |-> m]

RtMap_get_mut(m, k, w) == RtMap_get_resource_mut(m, k, w)

RtMap_contains_key(m, k) == k \in DOMAIN m

\* Mutant: the caller gets a cell of its own with the value.
RtMap_get_raw_copy(m, k) ==
    IF k \in DOMAIN m
    THEN [res |-> "Some", cell |-> Cell_new(m[k].value)]
    ELSE [res |-> "None", cell |-> Cell_new(NoVal)]

\* get_raw: self.0.get(k), the cell itself.
RtMap_get_raw(m, k) ==
    IF k \in DOMAIN m
    THEN [res |-> "Some", cell |-> m[k]]
    ELSE [res |-> "None", cell |-> Cell_new(NoVal)]

\* Mutant: borrow checks the flag as borrow_mut does, and refuses a second Ref.
RtMap_borrow_exclusive_check(m, k) ==
    IF k \in DOMAIN m
    THEN IF m[k].flag # 0
         THEN [res |-> "PanicAlreadyBorrowed", msgKey |-> NoKey, val |-> NoVal, map |-> m]
         ELSE [res |-> "Ok", msgKey |-> NoKey, val |-> m[k].value,
               map |-> [m EXCEPT ![k] = Ref_new(Cell_borrow(m[k]).cell)]]
    ELSE [res |-> "PanicDoesNotExist", msgKey |-> k, val |-> NoVal, map |-> m]

RtMap_borrow(m, k) ==
    IF k \in DOMAIN m
    THEN LET r == Cell_borrow(m[k]) IN
         IF r.res = "Ok"
         THEN [res |-> "Ok", msgKey |-> NoKey, val |-> r.cell.value,
               map |-> [m EXCEPT ![k] = Ref_new(r.cell)]]
         ELSE [res |-> r.res, msgKey |-> NoKey, val |-> NoVal,
               map |-> [m EXCEPT ![k] = r.cell]]
    ELSE [res |-> "PanicDoesNotExist", msgKey |-> k, val |-> NoVal, map |-> m]

\* Mutant: the conflict is reported with the other variant.
RtMap_try_borrow_wrong_variant(m, k) ==
    IF k \notin DOMAIN m
    THEN [res |-> "ValueNotFound", msgKey |-> NoKey, val |-> NoVal, map |-> m]
    ELSE LET r == Cell_try_borrow(m[k]) IN
         IF r.res = "Ok"
         THEN [res |-> "Ok", msgKey |-> NoKey, val |-> r.cell.value,
               map |-> [m EXCEPT ![k] = Ref_new(r.cell)]]
         ELSE [res |-> "BorrowConflictMut", msgKey |-> NoKey, val |-> NoVal,
               map |-> [m EXCEPT ![k] = r.cell]]

RtMap_try_borrow(m, k) ==
    IF k \notin DOMAIN m
    THEN [res |-> "ValueNotFound", msgKey |-> NoKey, val |-> NoVal, map |-> m]
    ELSE LET r == Cell_try_borrow(m[k]) IN
         IF r.res = "Ok"
         THEN [res |-> "Ok", msgKey |-> NoKey, val |-> r.cell.value,
               map |-> [m EXCEPT ![k] = Ref_new(r.cell)]]
         ELSE [res |-> r.res, msgKey |-> NoKey, val |-> NoVal,
               map |-> [m EXCEPT ![k] = r.cell]]

\* Mutant: one borrow state for the whole map: a guard on any entry is a conflict.
RtMap_borrow_mut_container_wide(m, k) ==
    IF k \in DOMAIN m
    THEN IF \E x \in DOMAIN m : m[x].flag # 0
         THEN [res |-> "PanicAlreadyBorrowed", msgKey |-> NoKey, val |-> NoVal, map |-> m]
         ELSE [res |-> "Ok", msgKey |-> NoKey, val |-> m[k].value,
               map |-> [m EXCEPT ![k] = RefMut_new(Cell_borrow_mut(m[k]).cell)]]
    ELSE [res |-> "PanicDoesNotExist", msgKey |-> k, val |-> NoVal, map |-> m]

\* Mutant: a conflict comes back as the error value of the fallible form.
RtMap_borrow_mut_returns_error(m, k) ==
    IF k \in DOMAIN m
    THEN LET r == Cell_try_borrow_mut(m[k]) IN
         IF r.res = "Ok"
         THEN [res |-> "Ok", msgKey |-> NoKey, val |-> r.cell.value,
               map |-> [m EXCEPT ![k] = RefMut_new(r.cell)]]
         ELSE [res |-> r.res, msgKey |-> NoKey, val |-> NoVal,
               map |-> [m EXCEPT ![k] = r.cell]]
    ELSE [res |-> "PanicDoesNotExist", msgKey |-> k, val |-> NoVal, map |-> m]

RtMap_borrow_mut(m, k) ==
    IF k \in DOMAIN m
    THEN LET r == Cell_borrow_mut(m[k]) IN
         IF r.res = "Ok"
         THEN [res |-> "Ok", msgKey |-> NoKey, val |-> r.cell.value,
               map |-> [m EXCEPT ![k] = RefMut_new(r.cell)]]
         ELSE [res |-> r.res, msgKey |-> NoKey, val |-> NoVal,
               map |-> [m EXCEPT ![k] = r.cell]]
    ELSE [res |-> "PanicDoesNotExist", msgKey |-> k, val |-> NoVal, map |-> m]

\* Mutant: a conflict is reported like an absent key (an Option-style result).
RtMap_try_borrow_mut_as_option(m, k) ==
    IF k \notin DOMAIN m
    THEN [res |-> "ValueNotFound", msgKey |-> NoKey, val |-> NoVal, map |-> m]
    ELSE LET r == Cell_try_borrow_mut(m[k]) IN
         IF r.res = "Ok"
         THEN [res |-> "Ok", msgKey |-> NoKey, val |-> r.cell.value,
               map |-> [m EXCEPT ![k] = RefMut_new(r.cell)]]
         ELSE [res |-> "ValueNotFound", msgKey |-> NoKey, val |-> NoVal,
               map |-> [m EXCEPT ![k] = r.cell]]

\* Mutant: only an exclusive borrow turns the request down.
RtMap_try_borrow_mut_over_shared(m, k) ==
    IF k \notin DOMAIN m
    THEN [res |-> "ValueNotFound", msgKey |-> NoKey, val |-> NoVal, map |-> m]
    ELSE IF m[k].flag # UsizeMax
         THEN [res |-> "Ok", msgKey |-> NoKey, val |-> m[k].value,
               map |-> [m EXCEPT ![k] = RefMut_new([m[k] EXCEPT !.flag = UsizeMax])]]
         ELSE [res |-> "BorrowConflictMut", msgKey |-> NoKey, val |-> NoVal, map |-> m]

RtMap_try_borrow_mut(m, k) ==
    IF k \notin DOMAIN m
    THEN [res |-> "ValueNotFound", msgKey |-> NoKey, val |-> NoVal, map |-> m]
    ELSE LET r == Cell_try_borrow_mut(m[k]) IN
         IF r.res = "Ok"
         THEN [res |-> "Ok", msgKey |-> NoKey, val |-> r.cell.value,
               map |-> [m EXCEPT ![k] = RefMut_new(r.cell)]]
         ELSE [res |-> r.res, msgKey |-> NoKey, val |-> NoVal,
               map |-> [m EXCEPT ![k] = r.cell]]

\* ------------------------------------------------------------------- RtVec
\* Indices are zero-based as in the source; the sequence is one-based.

RtVec_push(v, x) == Append(v, Cell_new(x))

\* Mutant: an index equal to the length is refused too.
RtVec_insert_below_len(v, i, x) ==
    IF i >= Len(v)
    THEN [res |-> "PanicIndexOutOfBounds", vec |-> v]
    ELSE [res |-> "Ok",
          vec |-> SubSeq(v, 1, i) \o <<Cell_new(x)>> \o SubSeq(v, i + 1, Len(v))]

RtVec_insert(v, i, x) ==
    IF i > Len(v)
    THEN [res |-> "PanicIndexOutOfBounds", vec |-> v]
    ELSE [res |-> "Ok",
          vec |-> SubSeq(v, 1, i) \o <<Cell_new(x)>> \o SubSeq(v, i + 1, Len(v))]

\* Mutant: the hole is filled with the last element.
RtVec_remove_by_swap(v, i) ==
    IF i >= Len(v)
    THEN [res |-> "PanicIndexOutOfBounds", val |-> NoVal, vec |-> v]
    ELSE [res |-> "Ok", val |-> v[i + 1].value,
          vec |-> [j \in 1..(Len(v) - 1) |-> IF j = i + 1 THEN v[Len(v)] ELSE v[j]]]

RtVec_remove(v, i) ==
    IF i >= Len(v)
    THEN [res |-> "PanicIndexOutOfBounds", val |-> NoVal, vec |-> v]
    ELSE [res |-> "Ok", val |-> v[i + 1].value,
          vec |-> SubSeq(v, 1, i) \o SubSeq(v, i + 2, Len(v))]

\* Mutant: the later elements are shifted left.
RtVec_swap_remove_by_shift(v, i) ==
    IF i >= Len(v)
    THEN [res |-> "PanicIndexOutOfBounds", val |-> NoVal, vec |-> v]
    ELSE [res |-> "Ok", val |-> v[i + 1].value,
          vec |-> SubSeq(v, 1, i) \o SubSeq(v, i + 2, Len(v))]

RtVec_swap_remove(v, i) ==
    IF i >= Len(v)
    THEN [res |-> "PanicIndexOutOfBounds", val |-> NoVal, vec |-> v]
    ELSE [res |-> "Ok", val |-> v[i + 1].value,
          vec |-> [j \in 1..(Len(v) - 1) |-> IF j = i + 1 THEN v[Len(v)] ELSE v[j]]]

\* Mutant: borrow is try_borrow unwrapped with one message for every failure.
RtVec_borrow_via_try(v, i) ==
    IF i < Len(v)
    THEN LET r == Cell_borrow(v[i + 1]) IN
         IF r.res = "Ok"
         THEN [res |-> "Ok", msgKey |-> NoKey, val |-> r.cell.value,
               vec |-> [v EXCEPT ![i + 1] = Ref_new(r.cell)]]
         ELSE [res |-> "PanicAlreadyBorrowedMutably", msgKey |-> NoKey, val |-> NoVal,
               vec |-> [v EXCEPT ![i + 1] = r.cell]]
    ELSE [res |-> "PanicAlreadyBorrowedMutably", msgKey |-> NoKey, val |-> NoVal, vec |-> v]

\* Mutant: a conflict with a RefMut is reported as "already borrowed".
RtVec_borrow_other_panic(v, i) ==
    IF i < Len(v)
    THEN LET r == Cell_borrow(v[i + 1]) IN
         IF r.res = "Ok"
         THEN [res |-> "Ok", msgKey |-> NoKey, val |-> r.cell.value,
               vec |-> [v EXCEPT ![i + 1] = Ref_new(r.cell)]]
         ELSE [res |-> "PanicAlreadyBorrowed", msgKey |-> NoKey, val |-> NoVal,
               vec |-> [v EXCEPT ![i + 1] = r.cell]]
    ELSE [res |-> "PanicDoesNotExist", msgKey |-> i, val |-> NoVal, vec |-> v]

RtVec_borrow(v, i) ==
    IF i < Len(v)
    THEN LET r == Cell_borrow(v[i + 1]) IN
         IF r.res = "Ok"
         THEN [res |-> "Ok", msgKey |-> NoKey, val |-> r.cell.value,
               vec |-> [v EXCEPT ![i + 1] = Ref_new(r.cell)]]
         ELSE [res |-> r.res, msgKey |-> NoKey, val |-> NoVal,
               vec |-> [v EXCEPT ![i + 1] = r.cell]]
    ELSE [res |-> "PanicDoesNotExist", msgKey |-> i, val |-> NoVal, vec |-> v]

\* get_raw: self.0.get(index), the cell itself.
RtVec_get_raw(v, i) ==
    IF i < Len(v)
    THEN [res |-> "Some", cell |-> v[i + 1]]
    ELSE [res |-> "None", cell |-> Cell_new(NoVal)]

\* Mutant: get goes through the fallible borrow and turns a conflict into None.
RtVec_get_via_try(v, i) ==
    IF i < Len(v)
    THEN LET r == Cell_try_borrow(v[i + 1]) IN
         IF r.res = "Ok"
         THEN [res |-> "Some", msgKey |-> NoKey, val |-> r.cell.value,
               vec |-> [v EXCEPT ![i + 1] = Ref_new(r.cell)]]
         ELSE [res |-> "None", msgKey |-> NoKey, val |-> NoVal,
               vec |-> [v EXCEPT ![i + 1] = r.cell]]
    ELSE [res |-> "None", msgKey |-> NoKey, val |-> NoVal, vec |-> v]

\* get: `self.0.get(index).map(|cell| Ref { inner: cell.borrow(), .. })`.
RtVec_get(v, i) ==
    IF i < Len(v)
    THEN LET r == Cell_borrow(v[i + 1]) IN
         IF r.res = "Ok"
         THEN [res |-> "Some", msgKey |-> NoKey, val |-> r.cell.value,
               vec |-> [v EXCEPT ![i + 1] = Ref_new(r.cell)]]
         ELSE [res |-> r.res, msgKey |-> NoKey, val |-> NoVal,
               vec |-> [v EXCEPT ![i + 1] = r.cell]]
    ELSE [res |-> "None", msgKey |-> NoKey, val |-> NoVal, vec |-> v]

RtVec_get_value_mut(v, i, w) ==
    IF i < Len(v)
    THEN [res |-> "Some", val |-> v[i + 1].value,
          vec |-> [v EXCEPT ![i + 1] = Cell_get_mut(v[i + 1], w)]]
    ELSE [res |-> "None", val |-> NoVal, vec |-> v]

RtVec_get_mut(v, i, w) == RtVec_get_value_mut(v, i, w)

\* Mutant: an index past the end is clamped to the last element.
RtVec_try_borrow_clamped(v, i) ==
    IF Len(v) = 0
    THEN [res |-> "ValueNotFound", msgKey |-> NoKey, val |-> NoVal, vec |-> v]
    ELSE LET j == IF i < Len(v) THEN i + 1 ELSE Len(v)
             r == Cell_try_borrow(v[j]) IN
         IF r.res = "Ok"
         THEN [res |-> "Ok", msgKey |-> NoKey, val |-> r.cell.value,
               vec |-> [v EXCEPT ![j] = Ref_new(r.cell)]]
         ELSE [res |-> r.res, msgKey |-> NoKey, val |-> NoVal,
               vec |-> [v EXCEPT ![j] = r.cell]]

RtVec_try_borrow(v, i) ==
    IF ~(i < Len(v))
    THEN [res |-> "ValueNotFound", msgKey |-> NoKey, val |-> NoVal, vec |-> v]
    ELSE LET r == Cell_try_borrow(v[i + 1]) IN
         IF r.res = "Ok"
         THEN [res |-> "Ok", msgKey |-> NoKey, val |-> r.cell.value,
               vec |-> [v EXCEPT ![i + 1] = Ref_new(r.cell)]]
         ELSE [res |-> r.res, msgKey |-> NoKey, val |-> NoVal,
               vec |-> [v EXCEPT ![i + 1] = r.cell]]

\* Mutant: the sentinel is written before the old flag is looked at, and stays
\* written when the request is refused.
RtVec_borrow_mut_marks_first(v, i) ==
    IF i < Len(v)
    THEN LET r == Cell_borrow_mut(v[i + 1]) IN
         IF r.res = "Ok"
         THEN [res |-> "Ok", msgKey |-> NoKey, val |-> r.cell.value,
               vec |-> [v EXCEPT ![i + 1] = RefMut_new(r.cell)]]
         ELSE [res |-> r.res, msgKey |-> NoKey, val |-> NoVal,
               vec |-> [v EXCEPT ![i + 1] = [r.cell EXCEPT !.flag = UsizeMax]]]
    ELSE [res |-> "PanicDoesNotExist", msgKey |-> i, val |-> NoVal, vec |-> v]

RtVec_borrow_mut(v, i) ==
    IF i < Len(v)
    THEN LET r == Cell_borrow_mut(v[i + 1]) IN
         IF r.res = "Ok"
         THEN [res |-> "Ok", msgKey |-> NoKey, val |-> r.cell.value,
               vec |-> [v EXCEPT ![i + 1] = RefMut_new(r.cell)]]
         ELSE [res |-> r.res, msgKey |-> NoKey, val |-> NoVal,
               vec |-> [v EXCEPT ![i + 1] = r.cell]]
    ELSE [res |-> "PanicDoesNotExist", msgKey |-> i, val |-> NoVal, vec |-> v]

\* Mutant: the RefMut is handed out whatever the cell answers.
RtVec_try_borrow_mut_unchecked(v, i) ==
    IF ~(i < Len(v))
    THEN [res |-> "ValueNotFound", msgKey |-> NoKey, val |-> NoVal, vec |-> v]
    ELSE LET r == Cell_try_borrow_mut(v[i + 1]) IN
         [res |-> "Ok", msgKey |-> NoKey, val |-> r.cell.value,
          vec |-> [v EXCEPT ![i + 1] = RefMut_new(r.cell)]]

RtVec_try_borrow_mut(v, i) ==
    IF ~(i < Len(v))
    THEN [res |-> "ValueNotFound", msgKey |-> NoKey, val |-> NoVal, vec |-> v]
    ELSE LET r == Cell_try_borrow_mut(v[i + 1]) IN
         IF r.res = "Ok"
         THEN [res |-> "Ok", msgKey |-> NoKey, val |-> r.cell.value,
               vec |-> [v EXCEPT ![i + 1] = RefMut_new(r.cell)]]
         ELSE [res |-> r.res, msgKey |-> NoKey, val |-> NoVal,
               vec |-> [v EXCEPT ![i + 1] = r.cell]]

\* ------------------------------------------------------- state and actions

\* The entries of the container in use, under one addressing.
HasEntry(s) == IF kind = "RtMap" THEN s \in DOMAIN map ELSE s \in 0..(Len(vec) - 1)

EntryAt(s) == IF kind = "RtMap" THEN map[s] ELSE vec[s + 1]

Slots == IF kind = "RtMap" THEN DOMAIN map ELSE 0..(Len(vec) - 1)

Addresses == IF kind = "RtMap" THEN Keys ELSE Indices

\* `&mut self`: no guard borrowed from the container is alive.
ExclusiveAccess == \A s \in Slots : EntryAt(s).refs = 0 /\ EntryAt(s).ref_muts = 0

\* `&self`: no RefMut<'a> holding the `&'a mut` borrow of the container is alive.
SharedAccess == entry_ref = NoKey

\* The model creates at most MaxGuards live shared guards per entry.
BelowGuardBound(s) == HasEntry(s) => EntryAt(s).refs < MaxGuards

\* The text of a panic, word by word.  `{key:?}` / `{index}` stands for the
\* formatted key or index, which the call records as `msgKey`.
PanicMessage(res) ==
    CASE res = "PanicDoesNotExist" ->
            <<"Expected", "to", "borrow", "{key:?}", "but", "it", "does", "not", "exist">>
      [] res = "PanicAlreadyBorrowed" ->
            <<"Expected", "to", "borrow", "{key:?}", "but", "it", "was", "already",
              "borrowed">>
      [] res = "PanicAlreadyBorrowedMutably" ->
            <<"Expected", "to", "borrow", "{key:?}", "but", "it", "was", "already",
              "borrowed", "mutably">>
      [] res = "PanicIndexOutOfBounds" ->
            <<"index", "out", "of", "bounds">>
      [] OTHER -> <<>>

\* What the caller observes of a call: the method, its key / index, the result
\* (Ok, an error value, or the kind of panic), the key a panic message names, and
\* the value returned or dereferenced, and how many times the call ran a closure
\* it was given.  `prev` is the method called before it.
Call(op, at, res, msgKey, val) ==
    [op |-> op, at |-> at, res |-> res, msgKey |-> msgKey, val |-> val, evals |-> 0]

Observe(call) ==
    /\ last' = call
    /\ prev' = last.op

Init ==
    /\ kind \in {"RtMap", "RtVec"}
    /\ map = <<>>
    /\ vec = <<>>
    /\ last = Call("new", NoKey, "Ok", NoKey, NoVal)
    /\ prev = "new"
    /\ entry_ref = NoKey
    /\ threads = <<>>
    /\ raw = <<>>

RtMapInsert(k, v) ==
    /\ kind = "RtMap"
    /\ ExclusiveAccess
    /\ LET r == RtMap_insert(map, k, v) IN
        /\ map' = r.map
        /\ Observe(Call("insert", k, r.res, NoKey, r.val))
    /\ UNCHANGED <<kind, vec, entry_ref, threads, raw>>

RtMapRemove(k) ==
    /\ kind = "RtMap"
    /\ ExclusiveAccess
    /\ LET r == RtMap_remove(map, k) IN
        /\ map' = r.map
        /\ Observe(Call("remove", k, r.res, NoKey, r.val))
    /\ UNCHANGED <<kind, vec, entry_ref, threads, raw>>

RtMapBorrow(k) ==
    /\ kind = "RtMap"
    /\ SharedAccess
    /\ BelowGuardBound(k)
    /\ LET r == RtMap_borrow(map, k) IN
        /\ map' = r.map
        /\ Observe(Call("borrow", k, r.res, r.msgKey, r.val))
    /\ UNCHANGED <<kind, vec, entry_ref, threads, raw>>

RtMapTryBorrow(k) ==
    /\ kind = "RtMap"
    /\ SharedAccess
    /\ BelowGuardBound(k)
    /\ LET r == RtMap_try_borrow(map, k) IN
        /\ map' = r.map
        /\ Observe(Call("try_borrow", k, r.res, r.msgKey, r.val))
    /\ UNCHANGED <<kind, vec, entry_ref, threads, raw>>

RtMapBorrowMut(k) ==
    /\ kind = "RtMap"
    /\ SharedAccess
    /\ LET r == RtMap_borrow_mut(map, k) IN
        /\ map' = r.map
        /\ Observe(Call("borrow_mut", k, r.res, r.msgKey, r.val))
    /\ UNCHANGED <<kind, vec, entry_ref, threads, raw>>

RtMapTryBorrowMut(k) ==
    /\ kind = "RtMap"
    /\ SharedAccess
    /\ LET r == RtMap_try_borrow_mut(map, k) IN
        /\ map' = r.map
        /\ Observe(Call("try_borrow_mut", k, r.res, r.msgKey, r.val))
    /\ UNCHANGED <<kind, vec, entry_ref, threads, raw>>

\* entry(k).or_insert(v).  `entry` takes `&mut self`, and the RefMut<'a> returned
\* keeps that borrow of the map for as long as it lives.
EntryOrInsert(k, v) ==
    /\ kind = "RtMap"
    /\ ExclusiveAccess
    /\ LET r == Entry_or_insert(RtMap_entry(map, k), v) IN
        /\ map' = r.map
        /\ entry_ref' = IF r.res = "Ok" THEN k ELSE NoKey
        /\ Observe([Call("or_insert", k, r.res, NoKey, r.val) EXCEPT !.evals = r.evals])
    /\ UNCHANGED <<kind, vec, threads, raw>>

EntryOrInsertWith(k, v) ==
    /\ kind = "RtMap"
    /\ ExclusiveAccess
    /\ LET r == Entry_or_insert_with(RtMap_entry(map, k), v) IN
        /\ map' = r.map
        /\ entry_ref' = IF r.res = "Ok" THEN k ELSE NoKey
        /\ Observe([Call("or_insert_with", k, r.res, NoKey, r.val) EXCEPT !.evals = r.evals])
    /\ UNCHANGED <<kind, vec, threads, raw>>

RtMapGetMut(k, w) ==
    /\ kind = "RtMap"
    /\ ExclusiveAccess
    /\ LET r == RtMap_get_mut(map, k, w) IN
        /\ map' = r.map
        /\ Observe(Call("get_mut", k, r.res, NoKey, r.val))
    /\ UNCHANGED <<kind, vec, entry_ref, threads, raw>>

RtVecPush(x) ==
    /\ kind = "RtVec"
    /\ ExclusiveAccess
    /\ vec' = RtVec_push(vec, x)
    /\ Observe(Call("push", Len(vec), "Ok", NoKey, NoVal))
    /\ UNCHANGED <<kind, map, entry_ref, threads, raw>>

RtVecInsert(i, x) ==
    /\ kind = "RtVec"
    /\ ExclusiveAccess
    /\ LET r == RtVec_insert(vec, i, x) IN
        /\ vec' = r.vec
        /\ Observe(Call("insert", i, r.res, NoKey, NoVal))
    /\ UNCHANGED <<kind, map, entry_ref, threads, raw>>

RtVecRemove(i) ==
    /\ kind = "RtVec"
    /\ ExclusiveAccess
    /\ LET r == RtVec_remove(vec, i) IN
        /\ vec' = r.vec
        /\ Observe(Call("remove", i, r.res, NoKey, r.val))
    /\ UNCHANGED <<kind, map, entry_ref, threads, raw>>

RtVecSwapRemove(i) ==
    /\ kind = "RtVec"
    /\ ExclusiveAccess
    /\ LET r == RtVec_swap_remove(vec, i) IN
        /\ vec' = r.vec
        /\ Observe(Call("swap_remove", i, r.res, NoKey, r.val))
    /\ UNCHANGED <<kind, map, entry_ref, threads, raw>>

RtVecBorrow(i) ==
    /\ kind = "RtVec"
    /\ SharedAccess
    /\ BelowGuardBound(i)
    /\ LET r == RtVec_borrow(vec, i) IN
        /\ vec' = r.vec
        /\ Observe(Call("borrow", i, r.res, r.msgKey, r.val))
    /\ UNCHANGED <<kind, map, entry_ref, threads, raw>>

RtVecTryBorrow(i) ==
    /\ kind = "RtVec"
    /\ SharedAccess
    /\ BelowGuardBound(i)
    /\ LET r == RtVec_try_borrow(vec, i) IN
        /\ vec' = r.vec
        /\ Observe(Call("try_borrow", i, r.res, r.msgKey, r.val))
    /\ UNCHANGED <<kind, map, entry_ref, threads, raw>>

RtVecGet(i) ==
    /\ kind = "RtVec"
    /\ SharedAccess
    /\ BelowGuardBound(i)
    /\ LET r == RtVec_get(vec, i) IN
        /\ vec' = r.vec
        /\ Observe(Call("get", i, r.res, r.msgKey, r.val))
    /\ UNCHANGED <<kind, map, entry_ref, threads, raw>>

RtVecGetMut(i, w) ==
    /\ kind = "RtVec"
    /\ ExclusiveAccess
    /\ LET r == RtVec_get_mut(vec, i, w) IN
        /\ vec' = r.vec
        /\ Observe(Call("get_mut", i, r.res, NoKey, r.val))
    /\ UNCHANGED <<kind, map, entry_ref, threads, raw>>

RtVecBorrowMut(i) ==
    /\ kind = "RtVec"
    /\ SharedAccess
    /\ LET r == RtVec_borrow_mut(vec, i) IN
        /\ vec' = r.vec
        /\ Observe(Call("borrow_mut", i, r.res, r.msgKey, r.val))
    /\ UNCHANGED <<kind, map, entry_ref, threads, raw>>

RtVecTryBorrowMut(i) ==
    /\ kind = "RtVec"
    /\ SharedAccess
    /\ LET r == RtVec_try_borrow_mut(vec, i) IN
        /\ vec' = r.vec
        /\ Observe(Call("try_borrow_mut", i, r.res, r.msgKey, r.val))
    /\ UNCHANGED <<kind, map, entry_ref, threads, raw>>

\* A guard operation rewrites the cell its guard points at, and nothing else.
SetEntry(s, c) ==
    /\ map' = IF kind = "RtMap" THEN [map EXCEPT ![s] = c] ELSE map
    /\ vec' = IF kind = "RtVec" THEN [vec EXCEPT ![s + 1] = c] ELSE vec
    /\ UNCHANGED kind

RefClone(s) ==
    /\ HasEntry(s)
    /\ EntryAt(s).refs > 0
    /\ EntryAt(s).refs < MaxGuards
    /\ SetEntry(s, Ref_clone(EntryAt(s)))
    /\ Observe(Call("clone", s, "Ok", NoKey, EntryAt(s).value))
    /\ UNCHANGED <<entry_ref, threads, raw>>

RefDrop(s) ==
    /\ HasEntry(s)
    /\ EntryAt(s).refs > 0
    /\ SetEntry(s, Ref_drop(EntryAt(s)))
    /\ Observe(Call("drop_ref", s, "Ok", NoKey, NoVal))
    /\ UNCHANGED <<entry_ref, threads, raw>>

RefMutDrop(s) ==
    /\ HasEntry(s)
    /\ EntryAt(s).ref_muts > 0
    /\ SetEntry(s, RefMut_drop(EntryAt(s)))
    /\ Observe(Call("drop_ref_mut", s, "Ok", NoKey, NoVal))
    /\ entry_ref' = NoKey
    /\ UNCHANGED <<threads, raw>>

RefMutDerefMut(s, v) ==
    /\ HasEntry(s)
    /\ EntryAt(s).ref_muts > 0
    /\ SetEntry(s, RefMut_deref_mut(EntryAt(s), v))
    /\ Observe(Call("deref_mut", s, "Ok", NoKey, v))
    /\ UNCHANGED <<entry_ref, threads, raw>>

Next ==
    \/ \E k \in Keys, v \in Values : RtMapInsert(k, v)
    \/ \E k \in Keys : RtMapRemove(k)
    \/ \E k \in Keys : RtMapBorrow(k)
    \/ \E k \in Keys : RtMapTryBorrow(k)
    \/ \E k \in Keys : RtMapBorrowMut(k)
    \/ \E k \in Keys : RtMapTryBorrowMut(k)
    \/ \E k \in Keys, w \in Values : RtMapGetMut(k, w)
    \/ \E k \in Keys, v \in Values : EntryOrInsert(k, v)
    \/ \E k \in Keys, v \in Values : EntryOrInsertWith(k, v)
    \/ \E x \in Values : Len(vec) < MaxLen /\ RtVecPush(x)
    \/ \E i \in Indices, x \in Values : Len(vec) < MaxLen /\ RtVecInsert(i, x)
    \/ \E i \in Indices : RtVecRemove(i)
    \/ \E i \in Indices : RtVecSwapRemove(i)
    \/ \E i \in Indices : RtVecBorrow(i)
    \/ \E i \in Indices : RtVecTryBorrow(i)
    \/ \E i \in Indices : RtVecGet(i)
    \/ \E i \in Indices, w \in Values : RtVecGetMut(i, w)
    \/ \E i \in Indices : RtVecBorrowMut(i)
    \/ \E i \in Indices : RtVecTryBorrowMut(i)
    \/ \E s \in Addresses : RefClone(s)
    \/ \E s \in Addresses : RefDrop(s)
    \/ \E s \in Addresses : RefMutDrop(s)
    \/ \E s \in Addresses, v \in Values : RefMutDerefMut(s, v)

Spec == Init /\ [][Next]_vars

\* The RtVec under the methods that change its length alone, on longer vectors:
\* being `&mut self` methods, they run only while no guard is alive.
InitStructure == Init /\ kind = "RtVec"

NextStructure ==
    \/ \E x \in Values : Len(vec) < MaxStructLen /\ RtVecPush(x)
    \/ \E i \in StructIndices, x \in Values : Len(vec) < MaxStructLen /\ RtVecInsert(i, x)
    \/ \E i \in StructIndices : RtVecRemove(i)
    \/ \E i \in StructIndices : RtVecSwapRemove(i)

SpecStructure == InitStructure /\ [][NextStructure]_vars

\* A Ref of entry s compared with a Ref of another entry t.
RefEq(s, t) ==
    /\ HasEntry(s) /\ HasEntry(t) /\ s # t
    /\ EntryAt(s).refs > 0 /\ EntryAt(t).refs > 0
    /\ Observe(Call("ref_eq", s, IF Ref_eq(EntryAt(s), EntryAt(t)) THEN "true" ELSE "false",
                    NoKey, NoVal))
    /\ UNCHANGED <<kind, map, vec, entry_ref, threads, raw>>

RefMutEq(s, t) ==
    /\ HasEntry(s) /\ HasEntry(t) /\ s # t
    /\ EntryAt(s).ref_muts > 0 /\ EntryAt(t).ref_muts > 0
    /\ Observe(Call("ref_mut_eq", s,
                    IF RefMut_eq(EntryAt(s), EntryAt(t)) THEN "true" ELSE "false",
                    NoKey, NoVal))
    /\ UNCHANGED <<kind, map, vec, entry_ref, threads, raw>>

\* The cells of entries that have guards alive: n Refs, or one RefMut.
GuardedCells ==
    {[value |-> v, flag |-> n, refs |-> n, ref_muts |-> 0] : v \in Values, n \in 1..MaxGuards}
    \cup {[value |-> v, flag |-> UsizeMax, refs |-> 0, ref_muts |-> 1] : v \in Values}

\* Guards compared with each other: a full container whose entries all have
\* guards alive, as left by insert / push and borrow / borrow_mut calls.
InitEq ==
    /\ kind \in {"RtMap", "RtVec"}
    /\ map \in IF kind = "RtMap" THEN [Keys -> GuardedCells] ELSE {<<>>}
    /\ vec \in IF kind = "RtVec" THEN [1..MaxLen -> GuardedCells] ELSE {<<>>}
    /\ last = Call("new", NoKey, "Ok", NoKey, NoVal)
    /\ prev = "new"
    /\ entry_ref = NoKey
    /\ threads = <<>>
    /\ raw = <<>>

NextEq ==
    \/ \E s \in Addresses, t \in Addresses : RefEq(s, t)
    \/ \E s \in Addresses, t \in Addresses : RefMutEq(s, t)
    \/ \E s \in Addresses : RefClone(s)
    \/ \E s \in Addresses, v \in Values : RefMutDerefMut(s, v)

SpecEq == InitEq /\ [][NextEq]_vars

\* ------------------------------------------------------------------ claims

\* ------------------------------------------------- threads racing on an entry
Threads == 1..NumThreads

Requests == {"try_borrow", "try_borrow_mut"}

\* The entry the threads race on: the only one of the container.
RaceSlot == CHOOSE s \in Slots : TRUE

Holds(t) == threads[t].pc = "done" /\ threads[t].res = "Ok"

\* try_borrow_mut: the flag is checked and set by one compare-exchange, so the
\* whole call is one atomic step.
RaceTryBorrowMut(t) ==
    /\ threads[t].req = "try_borrow_mut"
    /\ threads[t].pc = "start"
    /\ LET r == IF kind = "RtMap"
                THEN RtMap_try_borrow_mut(map, RaceSlot)
                ELSE RtVec_try_borrow_mut(vec, RaceSlot) IN
        /\ map' = IF kind = "RtMap" THEN r.map ELSE map
        /\ vec' = IF kind = "RtVec" THEN r.vec ELSE vec
        /\ threads' = [threads EXCEPT ![t].pc = "done", ![t].res = r.res]
    /\ UNCHANGED <<kind, last, prev, entry_ref, raw>>

\* try_borrow, first step: the flag is loaded, and the request fails at once if
\* it is the sentinel.
RaceTryBorrowLoad(t) ==
    /\ threads[t].req = "try_borrow"
    /\ threads[t].pc = "start"
    /\ LET val == Cell_flag_load(EntryAt(RaceSlot)) IN
        threads' = IF val = UsizeMax
                   THEN [threads EXCEPT ![t].pc = "done", ![t].val = val,
                                        ![t].res = "BorrowConflictImm"]
                   ELSE [threads EXCEPT ![t].pc = "loaded", ![t].val = val]
    /\ UNCHANGED <<kind, map, vec, last, prev, entry_ref, raw>>

\* try_borrow, second step: the count loaded is raised by one if the flag has
\* not changed since; if it has, the call starts over.
RaceTryBorrowExchange(t) ==
    /\ threads[t].req = "try_borrow"
    /\ threads[t].pc = "loaded"
    /\ LET r == Cell_flag_compare_exchange(EntryAt(RaceSlot), threads[t].val,
                                           (threads[t].val + 1) % Modulus) IN
        IF r.ok
        THEN /\ SetEntry(RaceSlot, Ref_new(r.cell))
             /\ threads' = [threads EXCEPT ![t].pc = "done", ![t].res = "Ok"]
        ELSE /\ threads' = [threads EXCEPT ![t].pc = "start"]
             /\ UNCHANGED <<kind, map, vec>>
    /\ UNCHANGED <<last, prev, entry_ref, raw>>

\* The thread drops the guard it got.
RaceDrop(t) ==
    /\ Holds(t)
    /\ SetEntry(RaceSlot, IF threads[t].req = "try_borrow"
                          THEN Ref_drop(EntryAt(RaceSlot))
                          ELSE RefMut_drop(EntryAt(RaceSlot)))
    /\ threads' = [threads EXCEPT ![t].pc = "dropped"]
    /\ UNCHANGED <<last, prev, entry_ref, raw>>

\* One unborrowed entry, and every thread about to make its request.
InitRace ==
    /\ kind \in {"RtMap", "RtVec"}
    /\ map \in IF kind = "RtMap"
               THEN {[j \in {k} |-> Cell_new(v)] : k \in Keys, v \in Values}
               ELSE {<<>>}
    /\ vec \in IF kind = "RtVec" THEN {<<Cell_new(v)>> : v \in Values} ELSE {<<>>}
    /\ last = Call("new", NoKey, "Ok", NoKey, NoVal)
    /\ prev = "new"
    /\ entry_ref = NoKey
    /\ threads \in [Threads -> {[req |-> r, pc |-> "start", val |-> 0, res |-> "none"] :
                                   r \in Requests}]
    /\ raw = <<>>

NextRace ==
    \/ \E t \in Threads : RaceTryBorrowMut(t)
    \/ \E t \in Threads : RaceTryBorrowLoad(t)
    \/ \E t \in Threads : RaceTryBorrowExchange(t)
    \/ \E t \in Threads : RaceDrop(t)

SpecRace == InitRace /\ [][NextRace]_vars

\* ------------------------------------------------------ borrows of raw cells
\* The cell that get_raw, or the HashMap / Vec that Deref gives, hands out.
GetRaw(s) == IF kind = "RtMap" THEN RtMap_get_raw(map, s) ELSE RtVec_get_raw(vec, s)

\* get_raw(s).map(Cell::try_borrow): the CellRef is kept by the caller.
RawTryBorrow(s) ==
    /\ SharedAccess
    /\ raw[s].refs < MaxGuards
    /\ LET g == GetRaw(s)
           r == Cell_try_borrow(g.cell) IN
        IF g.res = "None"
        THEN /\ UNCHANGED <<kind, map, vec, raw>>
             /\ Observe(Call("raw_try_borrow", s, "None", NoKey, NoVal))
        ELSE /\ SetEntry(s, r.cell)
             /\ raw' = IF r.res = "Ok" THEN [raw EXCEPT ![s].refs = @ + 1] ELSE raw
             /\ Observe(Call("raw_try_borrow", s, r.res, NoKey, NoVal))
    /\ UNCHANGED <<entry_ref, threads>>

\* get_raw(s).map(Cell::try_borrow_mut): the CellRefMut is kept by the caller.
RawTryBorrowMut(s) ==
    /\ SharedAccess
    /\ LET g == GetRaw(s)
           r == Cell_try_borrow_mut(g.cell) IN
        IF g.res = "None"
        THEN /\ UNCHANGED <<kind, map, vec, raw>>
             /\ Observe(Call("raw_try_borrow_mut", s, "None", NoKey, NoVal))
        ELSE /\ SetEntry(s, r.cell)
             /\ raw' = IF r.res = "Ok" THEN [raw EXCEPT ![s].ref_muts = @ + 1] ELSE raw
             /\ Observe(Call("raw_try_borrow_mut", s, r.res, NoKey, NoVal))
    /\ UNCHANGED <<entry_ref, threads>>

\* A CellRef taken on a raw cell is dropped.
RawCellRefDrop(s) ==
    /\ HasEntry(s)
    /\ raw[s].refs > 0
    /\ SetEntry(s, CellRef_drop(EntryAt(s)))
    /\ raw' = [raw EXCEPT ![s].refs = @ - 1]
    /\ Observe(Call("raw_drop_ref", s, "Ok", NoKey, NoVal))
    /\ UNCHANGED <<entry_ref, threads>>

\* A CellRefMut taken on a raw cell is dropped.
RawCellRefMutDrop(s) ==
    /\ HasEntry(s)
    /\ raw[s].ref_muts > 0
    /\ SetEntry(s, CellRefMut_drop(EntryAt(s)))
    /\ raw' = [raw EXCEPT ![s].ref_muts = @ - 1]
    /\ Observe(Call("raw_drop_ref_mut", s, "Ok", NoKey, NoVal))
    /\ UNCHANGED <<entry_ref, threads>>

\* A container that holds one unborrowed entry, or none.
InitRaw ==
    /\ kind \in {"RtMap", "RtVec"}
    /\ map \in IF kind = "RtMap"
               THEN {<<>>} \cup {[j \in {k} |-> Cell_new(v)] : k \in Keys, v \in Values}
               ELSE {<<>>}
    /\ vec \in IF kind = "RtVec"
               THEN {<<>>} \cup {<<Cell_new(v)>> : v \in Values}
               ELSE {<<>>}
    /\ last = Call("new", NoKey, "Ok", NoKey, NoVal)
    /\ prev = "new"
    /\ entry_ref = NoKey
    /\ threads = <<>>
    /\ raw = [s \in Addresses |-> [refs |-> 0, ref_muts |-> 0]]

\* Borrows through the container and borrows of raw cells, in any order.
NextRaw ==
    \/ \E s \in Addresses : RawTryBorrow(s)
    \/ \E s \in Addresses : RawTryBorrowMut(s)
    \/ \E s \in Addresses : RawCellRefDrop(s)
    \/ \E s \in Addresses : RawCellRefMutDrop(s)
    \/ \E k \in Keys : RtMapTryBorrow(k)
    \/ \E k \in Keys : RtMapTryBorrowMut(k)
    \/ \E i \in Indices : RtVecTryBorrow(i)
    \/ \E i \in Indices : RtVecTryBorrowMut(i)
    \/ \E s \in Addresses : RefDrop(s)
    \/ \E s \in Addresses : RefMutDrop(s)

SpecRaw == InitRaw /\ [][NextRaw]_vars

\* --------------------------------------------- shared guards without a bound
\* try_borrow with its Ref kept alive, however many the entry already has. The
\* count of guards is capped where the flag has gone once round its width.
ManyTryBorrow(s) ==
    /\ SharedAccess
    /\ HasEntry(s) => EntryAt(s).refs < Modulus
    /\ LET r == IF kind = "RtMap" THEN RtMap_try_borrow(map, s) ELSE RtVec_try_borrow(vec, s) IN
        /\ map' = IF kind = "RtMap" THEN r.map ELSE map
        /\ vec' = IF kind = "RtVec" THEN r.vec ELSE vec
        /\ Observe(Call("try_borrow", s, r.res, r.msgKey, r.val))
    /\ UNCHANGED <<kind, entry_ref, threads, raw>>

\* Ref::clone of one of the live Refs of the entry, with the same cap.
ManyRefClone(s) ==
    /\ HasEntry(s)
    /\ EntryAt(s).refs > 0
    /\ EntryAt(s).refs < Modulus
    /\ SetEntry(s, Ref_clone(EntryAt(s)))
    /\ Observe(Call("clone", s, "Ok", NoKey, EntryAt(s).value))
    /\ UNCHANGED <<entry_ref, threads, raw>>

\* One unborrowed entry.
InitMany ==
    /\ kind \in {"RtMap", "RtVec"}
    /\ map \in IF kind = "RtMap"
               THEN {[j \in {k} |-> Cell_new(v)] : k \in Keys, v \in Values}
               ELSE {<<>>}
    /\ vec \in IF kind = "RtVec" THEN {<<Cell_new(v)>> : v \in Values} ELSE {<<>>}
    /\ last = Call("new", NoKey, "Ok", NoKey, NoVal)
    /\ prev = "new"
    /\ entry_ref = NoKey
    /\ threads = <<>>
    /\ raw = <<>>

\* Shared acquisitions and clones only: no guard is dropped.
NextMany ==
    \/ \E s \in Addresses : ManyTryBorrow(s)
    \/ \E s \in Addresses : ManyRefClone(s)

SpecMany == InitMany /\ [][NextMany]_vars

\* ------------------------------------------------ entries with leaked guards
\* The cells of entries whose guards were all leaked (`mem::forget`): the flag
\* still counts them, and no guard is alive.
LeakedCells ==
    {[value |-> v, flag |-> f, refs |-> 0, ref_muts |-> 0] :
        v \in Values, f \in (1..MaxGuards) \cup {UsizeMax}}

InitLeaked ==
    /\ kind \in {"RtMap", "RtVec"}
    /\ map \in IF kind = "RtMap"
               THEN UNION {[D -> LeakedCells] : D \in SUBSET Keys}
               ELSE {<<>>}
    /\ vec \in IF kind = "RtVec"
               THEN UNION {[1..n -> LeakedCells] : n \in 0..MaxLen}
               ELSE {<<>>}
    /\ last = Call("new", NoKey, "Ok", NoKey, NoVal)
    /\ prev = "new"
    /\ entry_ref = NoKey
    /\ threads = <<>>
    /\ raw = <<>>

\* The methods that store a value, and those that take one out.
NextLeaked ==
    \/ \E k \in Keys, v \in Values : RtMapInsert(k, v)
    \/ \E k \in Keys : RtMapRemove(k)
    \/ \E x \in Values : Len(vec) < MaxLen /\ RtVecPush(x)
    \/ \E i \in Indices, x \in Values : Len(vec) < MaxLen /\ RtVecInsert(i, x)
    \/ \E i \in Indices : RtVecRemove(i)

SpecLeaked == InitLeaked /\ [][NextLeaked]_vars

\* The call observed in the step is `op` on key / index s.
Did(ops, s) == last'.op \in ops /\ last'.at = s

Unborrowed(c) == c.refs = 0 /\ c.ref_muts = 0

Panics == {"PanicDoesNotExist", "PanicAlreadyBorrowed", "PanicAlreadyBorrowedMutably",
           "PanicIndexOutOfBounds"}

Conflicts == {"BorrowConflictImm", "BorrowConflictMut",
              "PanicAlreadyBorrowed", "PanicAlreadyBorrowedMutably"}

\* C1: in every reachable state, the live guards of every entry are none, or
\* n >= 1 Ref and no RefMut, or exactly one RefMut and no Ref.
C1_GuardExclusion ==
    \A s \in Slots :
        LET c == EntryAt(s) IN
        \/ c.refs = 0 /\ c.ref_muts = 0
        \/ c.refs >= 1 /\ c.ref_muts = 0
        \/ c.refs = 0 /\ c.ref_muts = 1

\* An entry holds its RefMut, another holds two Refs, and a conflicting request on
\* the first has just been turned down.
C1_Witness ==
    /\ last.res \in Conflicts
    /\ HasEntry(last.at)
    /\ EntryAt(last.at).ref_muts = 1
    /\ \E t \in Slots : EntryAt(t).refs >= 2

\* C2: a shared acquisition (borrow, try_borrow) of an existing entry that has no
\* live RefMut succeeds, and the flag then reads "shared" with a count equal to
\* the number of live Refs of the entry, one more than before.
C2_SharedAcquisitionsSucceed ==
    [][\A s \in Addresses :
          (Did({"borrow", "try_borrow"}, s) /\ HasEntry(s) /\ EntryAt(s).ref_muts = 0)
          => /\ last'.res = "Ok"
             /\ EntryAt(s)'.refs = EntryAt(s).refs + 1
             /\ EntryAt(s)'.flag = EntryAt(s)'.refs
             /\ EntryAt(s)'.flag # UsizeMax
             /\ EntryAt(s)'.ref_muts = 0]_vars

\* Two shared acquisitions in a row on the only entry, both live.
C2_Witness ==
    /\ last.op \in {"borrow", "try_borrow"}
    /\ prev \in {"borrow", "try_borrow"}
    /\ last.res = "Ok"
    /\ Slots = {last.at}
    /\ EntryAt(last.at).refs = 2
    /\ EntryAt(last.at).flag = 2

GuardOps == {"borrow", "try_borrow", "borrow_mut", "try_borrow_mut",
             "clone", "drop_ref", "drop_ref_mut"}

\* C6: acquiring, cloning or dropping a guard of one entry leaves every other
\* entry as it was, and whether an acquisition succeeds is decided by the borrow
\* state of its own entry alone.
C6_EntriesIndependent ==
    [][\A s \in Addresses :
          Did(GuardOps, s)
          => /\ Slots' = Slots
             /\ \A t \in Slots \ {s} : EntryAt(t)' = EntryAt(t)
             /\ (HasEntry(s) /\ last'.op \in {"borrow_mut", "try_borrow_mut"})
                  => (last'.res = "Ok" <=> Unborrowed(EntryAt(s)))
             /\ (HasEntry(s) /\ last'.op \in {"borrow", "try_borrow"})
                  => (last'.res = "Ok" <=> EntryAt(s).ref_muts = 0)]_vars

\* Two distinct entries are exclusively borrowed at once.
C6_Witness ==
    /\ last.op \in {"borrow_mut", "try_borrow_mut"}
    /\ last.res = "Ok"
    /\ \E t \in Slots : t # last.at /\ EntryAt(t).ref_muts = 1
    /\ EntryAt(last.at).ref_muts = 1

\* C7: once every guard of an entry has been dropped the entry is unborrowed
\* (flag 0), and an exclusive acquisition (borrow_mut, try_borrow_mut) of an
\* entry without live guards succeeds and sets the exclusive state.
C7_ReacquireAfterRelease ==
    [][\A s \in Addresses :
          /\ (Did({"drop_ref", "drop_ref_mut"}, s) /\ Unborrowed(EntryAt(s)'))
               => EntryAt(s)'.flag = 0
          /\ (Did({"borrow_mut", "try_borrow_mut"}, s) /\ HasEntry(s)
                /\ Unborrowed(EntryAt(s)))
               => /\ last'.res = "Ok"
                  /\ EntryAt(s)'.ref_muts = 1
                  /\ EntryAt(s)'.refs = 0
                  /\ EntryAt(s)'.flag = UsizeMax]_vars

\* The only entry of the container lost its last guard in the call before, and
\* the exclusive acquisition that followed succeeded.
C7_Witness ==
    /\ prev \in {"drop_ref", "drop_ref_mut"}
    /\ last.op \in {"borrow_mut", "try_borrow_mut"}
    /\ last.res = "Ok"
    /\ Slots = {last.at}
    /\ EntryAt(last.at).ref_muts = 1

\* C8: Ref::clone adds exactly one to the shared count and one live Ref on the
\* same flag; dropping a Ref takes exactly one off; the flag is back at 0 only
\* when no Ref is left.
C8_CloneCounts ==
    [][\A s \in Addresses :
          /\ Did({"clone"}, s)
               => /\ EntryAt(s)'.flag = EntryAt(s).flag + 1
                  /\ EntryAt(s)'.refs = EntryAt(s).refs + 1
                  /\ EntryAt(s)'.flag = EntryAt(s)'.refs
          /\ Did({"drop_ref"}, s)
               => /\ EntryAt(s)'.flag = EntryAt(s).flag - 1
                  /\ EntryAt(s)'.refs = EntryAt(s).refs - 1
                  /\ (EntryAt(s)'.flag = 0 <=> EntryAt(s)'.refs = 0)]_vars

\* A Ref was cloned, then one of the two copies dropped: the entry is still shared.
C8_Witness ==
    /\ prev = "clone"
    /\ last.op = "drop_ref"
    /\ EntryAt(last.at).refs = 1
    /\ EntryAt(last.at).flag = 1

\* C9: a refused borrow, try_borrow, borrow_mut or try_borrow_mut (conflict or
\* not found, error value or panic) leaves the container as it was: keys /
\* indices, values, flags and live guards.
C9_RejectedLeavesUnchanged ==
    [][\A s \in Addresses :
          (Did({"borrow", "try_borrow", "borrow_mut", "try_borrow_mut"}, s)
             /\ last'.res # "Ok")
          => (map' = map /\ vec' = vec)]_vars

C9_Witness ==
    /\ last.op = "borrow_mut"
    /\ last.res = "PanicAlreadyBorrowed"
    /\ EntryAt(last.at).refs = 2
    /\ EntryAt(last.at).flag = 2

\* C10: borrow and borrow_mut on an absent key / index panic with "does not
\* exist", the message naming the key / index; on a present entry they never do:
\* the only panics there are the "already borrowed" ones.
C10_DoesNotExistPanic ==
    [][\A s \in Addresses :
          Did({"borrow", "borrow_mut"}, s)
          => IF HasEntry(s)
             THEN last'.res \in {"Ok", "PanicAlreadyBorrowed", "PanicAlreadyBorrowedMutably"}
             ELSE last'.res = "PanicDoesNotExist" /\ last'.msgKey = s]_vars

\* "does not exist" for an absent entry while a present one is exclusively borrowed.
C10_Witness ==
    /\ last.op \in {"borrow", "borrow_mut"}
    /\ last.res = "PanicDoesNotExist"
    /\ last.msgKey = last.at
    /\ ~HasEntry(last.at)
    /\ \E t \in Slots : EntryAt(t).ref_muts = 1

\* `#[should_panic(expected = ..)]`: the expected words occur, in a row, in the
\* message.
Contains(msg, expected) ==
    \E i \in 0..(Len(msg) - Len(expected)) :
        SubSeq(msg, i + 1, i + Len(expected)) = expected

AlreadyBorrowed == <<"but", "it", "was", "already", "borrowed">>

AlreadyBorrowedMutably == <<"but", "it", "was", "already", "borrowed", "mutably">>

\* C11: borrow_mut on an existing entry with a live Ref or RefMut panics with a
\* message containing "already borrowed"; borrow on an existing entry with a live
\* RefMut panics with a message containing "already borrowed mutably"; neither
\* call hands out a guard.
C11_PanickingFormsAbortOnConflict ==
    [][\A s \in Addresses :
        /\ (Did({"borrow_mut"}, s) /\ HasEntry(s) /\ ~Unborrowed(EntryAt(s)))
              => /\ last'.res \in Panics
                 /\ Contains(PanicMessage(last'.res), AlreadyBorrowed)
                 /\ EntryAt(s)'.ref_muts = EntryAt(s).ref_muts
                 /\ EntryAt(s)'.refs = EntryAt(s).refs
        /\ (Did({"borrow"}, s) /\ HasEntry(s) /\ EntryAt(s).ref_muts > 0)
              => /\ last'.res \in Panics
                 /\ Contains(PanicMessage(last'.res), AlreadyBorrowedMutably)
                 /\ EntryAt(s)'.ref_muts = EntryAt(s).ref_muts
                 /\ EntryAt(s)'.refs = EntryAt(s).refs
      ]_vars

\* borrow_mut has just panicked on an entry that holds two Refs.
C11_Witness ==
    /\ last.op = "borrow_mut"
    /\ last.res = "PanicAlreadyBorrowed"
    /\ HasEntry(last.at)
    /\ EntryAt(last.at).refs = 2
    /\ Contains(PanicMessage(last.res), AlreadyBorrowed)
    /\ ~Contains(PanicMessage(last.res), AlreadyBorrowedMutably)

\* C12: entry(k).or_insert(v) and entry(k).or_insert_with(f) insert only when k
\* is absent: then f runs exactly once and its result is the stored value; when
\* k is present f does not run, the stored value is not overwritten, and the
\* RefMut returned refers to that original value.
C12_EntryInsertsOnlyIfAbsent ==
    [][\A k \in Keys, v \in Values :
        (EntryOrInsert(k, v) \/ EntryOrInsertWith(k, v)) =>
            /\ DOMAIN map' = DOMAIN map \cup {k}
            /\ map'[k].ref_muts = 1
            /\ \A j \in DOMAIN map \ {k} : map'[j] = map[j]
            /\ IF k \in DOMAIN map
               THEN /\ last'.evals = 0
                    /\ map'[k].value = map[k].value
                    /\ last'.val = map[k].value
               ELSE /\ last'.evals = 1
                    /\ map'[k].value = v
                    /\ last'.val = v
      ]_vars

\* or_insert_with has just found the key that insert put there: the closure did
\* not run, and the RefMut returned holds the map.
C12_Witness ==
    /\ last.op = "or_insert_with"
    /\ prev = "insert"
    /\ last.res = "Ok"
    /\ last.evals = 0
    /\ entry_ref = last.at
    /\ map[last.at].ref_muts = 1
    /\ map[last.at].value = last.val

\* C13: RtMap::insert(k, v) on an absent key returns None and adds the entry; on
\* a present key it returns Some(old value) and the entry then holds v; the map
\* gains at most the one entry for k, and every other entry is unchanged.
C13_InsertReplaces ==
    [][\A k \in Keys, v \in Values :
        RtMapInsert(k, v) =>
            /\ DOMAIN map' = DOMAIN map \cup {k}
            /\ Cardinality(DOMAIN map') =
                   Cardinality(DOMAIN map) + (IF k \in DOMAIN map THEN 0 ELSE 1)
            /\ map'[k].value = v
            /\ \A j \in DOMAIN map \ {k} : map'[j] = map[j]
            /\ IF k \in DOMAIN map
               THEN last'.res = "Some" /\ last'.val = map[k].value
               ELSE last'.res = "None" /\ last'.val = NoVal
      ]_vars

\* insert has just replaced the value of a key, handing back a different old
\* value, while the other key is present too.
C13_Witness ==
    /\ kind = "RtMap"
    /\ last.op = "insert"
    /\ last.res = "Some"
    /\ last.val # map[last.at].value
    /\ DOMAIN map = Keys

Inserts == {"insert", "or_insert", "or_insert_with"}

\* C14: RtMap::remove(k) on a present key returns Some(its value) and makes k
\* absent; on an absent key it returns None and leaves the map unchanged; from
\* then on contains_key(k) is false and try_borrow(k) gives ValueNotFound, until
\* a call inserts k again.
C14_RemoveMakesAbsent ==
    [][/\ \A k \in Keys :
            RtMapRemove(k) =>
                /\ IF k \in DOMAIN map
                   THEN last'.res = "Some" /\ last'.val = map[k].value
                   ELSE last'.res = "None" /\ last'.val = NoVal /\ map' = map
                /\ DOMAIN map' = DOMAIN map \ {k}
                /\ \A j \in DOMAIN map' : map'[j] = map[j]
                /\ ~RtMap_contains_key(map', k)
                /\ RtMap_try_borrow(map', k).res = "ValueNotFound"
       /\ \A k \in Keys :
            (kind = "RtMap" /\ ~RtMap_contains_key(map, k)) =>
                /\ RtMap_try_borrow(map, k).res = "ValueNotFound"
                /\ RtMap_contains_key(map', k) => Did(Inserts, k)
      ]_vars

\* remove has just taken a key out of a map that keeps the other key, and the
\* key removed is not found.
C14_Witness ==
    /\ kind = "RtMap"
    /\ last.op = "remove"
    /\ last.res = "Some"
    /\ last.val \in Values
    /\ ~RtMap_contains_key(map, last.at)
    /\ DOMAIN map = Keys \ {last.at}
    /\ RtMap_try_borrow(map, last.at).res = "ValueNotFound"

\* C15: RtVec::remove(index) with index in range returns the value at index and
\* moves every later element one position left, in the same order; with index
\* out of range it panics and the vector is unchanged.
C15_RemoveShiftsLeft ==
    [][\A i \in StructIndices :
        RtVecRemove(i) =>
            IF i < Len(vec)
            THEN /\ last'.res = "Ok"
                 /\ last'.val = vec[i + 1].value
                 /\ Len(vec') = Len(vec) - 1
                 /\ \A j \in 1..i : vec'[j] = vec[j]
                 /\ \A j \in (i + 1)..Len(vec') : vec'[j] = vec[j + 1]
            ELSE /\ last'.res = "PanicIndexOutOfBounds"
                 /\ vec' = vec
      ]_vars

\* remove(0) has just moved three elements left, the first two of them holding
\* different values.
C15_Witness ==
    /\ last.op = "remove"
    /\ last.res = "Ok"
    /\ last.at = 0
    /\ Len(vec) = 3
    /\ vec[1].value # vec[2].value

\* C16: RtVec::swap_remove(index) with index in range returns the value at
\* index, puts the former last element in that slot when the element removed
\* was not the last, makes the vector one shorter and leaves every other
\* position as it was.
C16_SwapRemoveFillsWithLast ==
    [][\A i \in StructIndices :
        RtVecSwapRemove(i) =>
            IF i < Len(vec)
            THEN /\ last'.res = "Ok"
                 /\ last'.val = vec[i + 1].value
                 /\ Len(vec') = Len(vec) - 1
                 /\ \A j \in 1..Len(vec') :
                        vec'[j] = IF j = i + 1 THEN vec[Len(vec)] ELSE vec[j]
            ELSE /\ last'.res = "PanicIndexOutOfBounds"
                 /\ vec' = vec
      ]_vars

\* swap_remove(0) has just put the fourth element first; it differs from the
\* element that would have come first had the others been shifted.
C16_Witness ==
    /\ last.op = "swap_remove"
    /\ last.res = "Ok"
    /\ last.at = 0
    /\ Len(vec) = 3
    /\ vec[1].value # vec[2].value

\* C17: RtVec::push(v) appends a new, unborrowed entry holding v at index len;
\* insert(index, v) with index <= len puts such an entry at index and moves the
\* elements formerly at positions >= index one place right; insert with
\* index > len panics.
C17_PushAndInsert ==
    [][/\ \A x \in Values :
            RtVecPush(x) =>
                /\ last'.at = Len(vec)
                /\ Len(vec') = Len(vec) + 1
                /\ vec'[Len(vec) + 1] = [value |-> x, flag |-> 0, refs |-> 0, ref_muts |-> 0]
                /\ \A j \in 1..Len(vec) : vec'[j] = vec[j]
       /\ \A i \in StructIndices, x \in Values :
            RtVecInsert(i, x) =>
                IF i <= Len(vec)
                THEN /\ last'.res = "Ok"
                     /\ Len(vec') = Len(vec) + 1
                     /\ vec'[i + 1] = [value |-> x, flag |-> 0, refs |-> 0, ref_muts |-> 0]
                     /\ \A j \in 1..i : vec'[j] = vec[j]
                     /\ \A j \in (i + 1)..Len(vec) : vec'[j + 1] = vec[j]
                ELSE /\ last'.res = "PanicIndexOutOfBounds"
                     /\ vec' = vec
      ]_vars

\* insert(1, v) has just moved two elements holding different values one place
\* right.
C17_Witness ==
    /\ last.op = "insert"
    /\ last.res = "Ok"
    /\ last.at = 1
    /\ Len(vec) = 4
    /\ vec[3].value # vec[4].value

\* C18: RtVec::get(index) returns None, without panicking, when index is out of
\* range; in range it does what borrow(index) does: Some(Ref) and one more
\* shared borrow counted when the entry is not exclusively borrowed, a panic
\* when the entry has a live RefMut.
C18_GetIsBorrowInRange ==
    [][\A i \in Indices :
        RtVecGet(i) =>
            IF i < Len(vec)
            THEN LET b == RtVec_borrow(vec, i) IN
                 /\ vec' = b.vec
                 /\ last'.val = b.val
                 /\ last'.res = IF b.res = "Ok" THEN "Some" ELSE b.res
                 /\ IF vec[i + 1].ref_muts = 0
                    THEN /\ last'.res = "Some"
                         /\ vec'[i + 1].refs = vec[i + 1].refs + 1
                         /\ vec'[i + 1].flag = vec[i + 1].flag + 1
                    ELSE /\ last'.res = "PanicAlreadyBorrowedMutably"
                         /\ vec'[i + 1] = vec[i + 1]
            ELSE /\ last'.res = "None"
                 /\ last'.res \notin Panics
                 /\ vec' = vec
      ]_vars

\* get has just panicked on an entry that holds its RefMut.
C18_Witness ==
    /\ last.op = "get"
    /\ last.res = "PanicAlreadyBorrowedMutably"
    /\ vec[last.at + 1].ref_muts = 1
    /\ vec[last.at + 1].flag = UsizeMax

BorrowState(c) == [flag |-> c.flag, refs |-> c.refs, ref_muts |-> c.ref_muts]

\* What try_borrow would hand back in the state after the step.
ReadBack(s) == IF kind = "RtMap" THEN RtMap_try_borrow(map', s) ELSE RtVec_try_borrow(vec', s)

\* C19: get_mut(k), on RtMap and on RtVec, is called with exclusive access to
\* the whole container and does not consult the flag: it returns Some for every
\* existing key / index and None for an absent one, never a borrow conflict;
\* it leaves the borrow state of every entry unchanged; and a value written
\* through it is the value later accesses read.
C19_GetMutBypassesFlag ==
    [][\A s \in Addresses, w \in Values :
        (RtMapGetMut(s, w) \/ RtVecGetMut(s, w)) =>
            /\ ExclusiveAccess
            /\ last'.res \notin (Conflicts \cup Panics)
            /\ last'.res = IF HasEntry(s) THEN "Some" ELSE "None"
            /\ Slots' = Slots
            /\ \A j \in Slots : BorrowState(EntryAt(j)') = BorrowState(EntryAt(j))
            /\ \A j \in Slots \ {s} : EntryAt(j)' = EntryAt(j)
            /\ HasEntry(s) =>
                  /\ last'.val = EntryAt(s).value
                  /\ EntryAt(s)'.value = w
                  /\ ReadBack(s).res = "Ok"
                  /\ ReadBack(s).val = w
      ]_vars

\* get_mut has just replaced the value it found by a different one, while the
\* container holds another entry.
C19_Witness ==
    /\ last.op = "get_mut"
    /\ last.res = "Some"
    /\ last.val # EntryAt(last.at).value
    /\ Slots # {last.at}
    /\ prev = "get_mut"

Reads == {"borrow", "try_borrow", "borrow_mut", "try_borrow_mut", "get", "get_mut",
          "remove", "swap_remove"}

Writers == {"deref_mut", "get_mut"}

Structural == {"insert", "push", "remove", "swap_remove"}

\* C20: a value written through a RefMut is the value stored in the entry, and
\* stays so when the RefMut is dropped; a later borrow, try_borrow, get_mut or
\* remove of the entry returns the value stored, which changes only by a write
\* to that entry; and a write through the RefMut of one entry changes no other
\* entry.
C20_WritesAreStored ==
    [][\A s \in {last'.at} \cap Addresses :
        /\ last'.op = "deref_mut" =>
              /\ EntryAt(s)'.value = last'.val
              /\ Slots' = Slots
              /\ \A j \in Slots \ {s} : EntryAt(j)' = EntryAt(j)
        /\ last'.op = "drop_ref_mut" => EntryAt(s)'.value = EntryAt(s).value
        /\ (last'.op \in Reads /\ last'.res \in {"Ok", "Some"})
              => last'.val = EntryAt(s).value
        /\ last'.op \in Writers =>
              \A j \in Slots \ {s} : EntryAt(j)'.value = EntryAt(j).value
        /\ last'.op \notin (Writers \cup Structural) =>
              \A j \in Slots : EntryAt(j)'.value = EntryAt(j).value
      ]_vars

\* try_borrow, called after the RefMut was dropped, has just read the value 1
\* of an entry that holds no RefMut any more, while another entry holds 0.
C20_Witness ==
    /\ last.op = "try_borrow"
    /\ prev = "drop_ref_mut"
    /\ last.res = "Ok"
    /\ last.val = 1
    /\ EntryAt(last.at).value = 1
    /\ EntryAt(last.at).ref_muts = 0
    /\ \E j \in Slots \ {last.at} : EntryAt(j).value = 0

\* C21: two Refs, and two RefMuts, compare equal exactly when the values they
\* refer to are equal, whatever the flag and the guard counts of their cells.
C21_EqualityIsValueEquality ==
    [][\A s \in Addresses, t \in Addresses :
        (RefEq(s, t) \/ RefMutEq(s, t)) =>
            /\ last'.res \in {"true", "false"}
            /\ last'.res = "true" <=> EntryAt(s).value = EntryAt(t).value
      ]_vars

\* Two Refs have just compared equal: their entries hold the same value, one
\* with one Ref alive and the other with two.
C21_Witness ==
    /\ last.op = "ref_eq"
    /\ last.res = "true"
    /\ Cardinality(Slots) = 2
    /\ \A j \in Slots : EntryAt(j).value = EntryAt(last.at).value
    /\ \E j \in Slots : EntryAt(j).flag # EntryAt(last.at).flag
    /\ \A j \in Slots : EntryAt(j).refs > 0

\* One move of the flag of a cell: none, Unborrowed -> Shared(1) and
\* Shared(n) -> Shared(n+1), Shared(n) -> Shared(n-1) and Shared(1) -> Unborrowed,
\* Unborrowed -> Exclusive, Exclusive -> Unborrowed.
FlagMove(f, g) ==
    \/ g = f
    \/ f # UsizeMax /\ g = f + 1 /\ g # UsizeMax
    \/ f # UsizeMax /\ f # 0 /\ g = f - 1
    \/ f = 0 /\ g = UsizeMax
    \/ f = UsizeMax /\ g = 0

\* C22: in one step the borrow state of an entry moves only Unborrowed ->
\* Shared(1), Shared(n) -> Shared(n+1), Shared(n) -> Shared(n-1), Shared(1) ->
\* Unborrowed, Unborrowed -> Exclusive or Exclusive -> Unborrowed: never from
\* Shared(n) to Exclusive nor from Exclusive to Shared(n).
C22_BorrowStateMoves ==
    [][\A s \in Slots :
        HasEntry(s)' =>
            /\ FlagMove(EntryAt(s).flag, EntryAt(s)'.flag)
            /\ ~(EntryAt(s).refs > 0 /\ EntryAt(s)'.ref_muts > 0)
            /\ ~(EntryAt(s).ref_muts > 0 /\ EntryAt(s)'.refs > 0)
      ]_vars

\* borrow_mut has just taken an entry to Exclusive, one step after the drop of
\* its last Ref took it to Unborrowed.
C22_Witness ==
    /\ last.op = "borrow_mut"
    /\ last.res = "Ok"
    /\ prev = "drop_ref"
    /\ EntryAt(last.at).flag = UsizeMax
    /\ EntryAt(last.at).ref_muts = 1
    /\ EntryAt(last.at).refs = 0

\* C23: when threads race on one unborrowed entry, in every interleaving of
\* their loads and compare-exchanges two threads hold their guards together
\* only if both asked for a shared borrow: of two conflicting requests
\* (exclusive and exclusive, exclusive and shared) at most one has succeeded.
C23_RaceHasOneWinner ==
    /\ \A t \in DOMAIN threads, u \in DOMAIN threads :
          (t # u /\ Holds(t) /\ Holds(u))
              => threads[t].req = "try_borrow" /\ threads[u].req = "try_borrow"
    /\ threads # <<>> =>
          LET c == EntryAt(RaceSlot) IN
          /\ c.ref_muts = Cardinality({t \in Threads : Holds(t) /\ threads[t].req = "try_borrow_mut"})
          /\ c.refs = Cardinality({t \in Threads : Holds(t) /\ threads[t].req = "try_borrow"})

\* A thread loaded the flag of the unborrowed entry, another thread then took
\* the exclusive borrow and holds it: the first is about to exchange on a
\* stale count.
C23_Witness ==
    /\ threads # <<>>
    /\ \E t \in Threads, u \in Threads :
          /\ threads[t].req = "try_borrow"
          /\ threads[t].pc = "loaded"
          /\ threads[t].val = 0
          /\ threads[u].req = "try_borrow_mut"
          /\ Holds(u)
          /\ EntryAt(RaceSlot).flag = UsizeMax

\* The flag accounts for exactly the guards alive.
Accounted(c) ==
    /\ c.refs >= 0
    /\ c.ref_muts \in {0, 1}
    /\ c.flag = IF c.ref_muts = 1 THEN UsizeMax ELSE c.refs

SharedAcquisitions == {"borrow", "try_borrow", "get", "clone"}

ExclusiveAcquisitions == {"borrow_mut", "try_borrow_mut", "or_insert", "or_insert_with"}

\* C24: every guard is acquired once and released once: the flag of every
\* entry counts exactly its live guards, so the shared count never goes below
\* zero; the count of the entry a call is made on goes down only by the drop of
\* one of its Refs, and by one; a failed acquisition changes nothing, so it
\* leaves no guard to release; and the exclusive state ends only by the drop of
\* the RefMut that began it.
C24_AcquireReleasePaired ==
    [][/\ \A s \in Slots : Accounted(EntryAt(s))
       /\ \A s \in {last'.at} \cap Slots :
            HasEntry(s)' =>
              LET c == EntryAt(s)
                  d == EntryAt(s)' IN
              /\ Accounted(d)
              /\ d.refs < c.refs => last'.op = "drop_ref" /\ d.refs = c.refs - 1
              /\ d.refs > c.refs =>
                    /\ last'.op \in SharedAcquisitions
                    /\ last'.res \in {"Ok", "Some"}
                    /\ d.refs = c.refs + 1
              /\ d.ref_muts < c.ref_muts => last'.op = "drop_ref_mut" /\ d.flag = 0
              /\ d.ref_muts > c.ref_muts =>
                    last'.op \in ExclusiveAcquisitions /\ last'.res = "Ok"
              /\ (/\ last'.op \in SharedAcquisitions \cup ExclusiveAcquisitions
                  /\ last'.res \notin {"Ok", "Some"}) => d = c
      ]_vars

\* One of the two Refs of an entry has just been dropped, right after a
\* try_borrow_mut: the other Ref is still counted.
C24_Witness ==
    /\ last.op = "drop_ref"
    /\ prev = "try_borrow_mut"
    /\ Slots = {last.at}
    /\ EntryAt(last.at).refs = 1
    /\ EntryAt(last.at).flag = 1

\* The panic that stands for an error value of the fallible form.
PanicOf(res) ==
    CASE res = "ValueNotFound" -> "PanicDoesNotExist"
      [] res = "BorrowConflictImm" -> "PanicAlreadyBorrowedMutably"
      [] res = "BorrowConflictMut" -> "PanicAlreadyBorrowed"
      [] OTHER -> res

\* The outcome of a call in the present state: its result and the container
\* it leaves.
Outcome(r) == [res |-> r.res, val |-> r.val, cells |-> IF kind = "RtMap" THEN r.map ELSE r.vec]

BorrowHere(s) == Outcome(IF kind = "RtMap" THEN RtMap_borrow(map, s) ELSE RtVec_borrow(vec, s))

TryBorrowHere(s) ==
    Outcome(IF kind = "RtMap" THEN RtMap_try_borrow(map, s) ELSE RtVec_try_borrow(vec, s))

BorrowMutHere(s) ==
    Outcome(IF kind = "RtMap" THEN RtMap_borrow_mut(map, s) ELSE RtVec_borrow_mut(vec, s))

TryBorrowMutHere(s) ==
    Outcome(IF kind = "RtMap" THEN RtMap_try_borrow_mut(map, s)
            ELSE RtVec_try_borrow_mut(vec, s))

\* C25: in every reachable state and for every key / index, borrow returns a
\* guard exactly when try_borrow would return Ok, and borrow_mut exactly when
\* try_borrow_mut would; on success the two forms leave the same container and
\* value; on failure the panic of the one is the panic that stands for the
\* error of the other (does not exist / ValueNotFound, already borrowed mutably
\* / BorrowConflictImm, already borrowed / BorrowConflictMut).
C25_FormsAgree ==
    \A s \in Addresses :
        /\ BorrowHere(s).res = PanicOf(TryBorrowHere(s).res)
        /\ BorrowHere(s).cells = TryBorrowHere(s).cells
        /\ BorrowHere(s).val = TryBorrowHere(s).val
        /\ BorrowMutHere(s).res = PanicOf(TryBorrowMutHere(s).res)
        /\ BorrowMutHere(s).cells = TryBorrowMutHere(s).cells
        /\ BorrowMutHere(s).val = TryBorrowMutHere(s).val
        /\ TryBorrowHere(s).res \in {"Ok", "ValueNotFound", "BorrowConflictImm"}
        /\ TryBorrowMutHere(s).res \in {"Ok", "ValueNotFound", "BorrowConflictMut"}

\* borrow has just panicked on an entry that holds its RefMut, in a state where
\* try_borrow answers BorrowConflictImm, and another key / index is absent.
C25_Witness ==
    /\ last.op = "borrow"
    /\ last.res = "PanicAlreadyBorrowedMutably"
    /\ TryBorrowHere(last.at).res = "BorrowConflictImm"
    /\ TryBorrowMutHere(last.at).res = "BorrowConflictMut"
    /\ \E s \in Addresses : TryBorrowHere(s).res = "ValueNotFound"

\* C26: the entry stored by RtMap::insert (new key or replaced key),
\* RtVec::push or RtVec::insert is unborrowed right after the call: it has no
\* live guard and its flag is 0, so try_borrow_mut on it returns Ok; a replaced
\* key does not carry the borrow state of its former cell over.
C26_NewEntryUnborrowed ==
    [][/\ \A k \in Keys, v \in Values :
            RtMapInsert(k, v) =>
                /\ map'[k] = [value |-> v, flag |-> 0, refs |-> 0, ref_muts |-> 0]
                /\ RtMap_try_borrow_mut(map', k).res = "Ok"
       /\ \A x \in Values :
            RtVecPush(x) =>
                /\ vec'[Len(vec')] = [value |-> x, flag |-> 0, refs |-> 0, ref_muts |-> 0]
                /\ RtVec_try_borrow_mut(vec', Len(vec)).res = "Ok"
       /\ \A i \in Indices, x \in Values :
            (RtVecInsert(i, x) /\ last'.res = "Ok") =>
                /\ vec'[i + 1] = [value |-> x, flag |-> 0, refs |-> 0, ref_muts |-> 0]
                /\ RtVec_try_borrow_mut(vec', i).res = "Ok"
      ]_vars

\* insert has just replaced, as the first call made, the value of a key whose
\* cell had a leaked borrow: the new cell is unborrowed.
C26_Witness ==
    /\ kind = "RtMap"
    /\ last.op = "insert"
    /\ last.res = "Some"
    /\ prev = "new"
    /\ map[last.at].flag = 0
    /\ RtMap_try_borrow_mut(map, last.at).res = "Ok"
    /\ \E k \in DOMAIN map : map[k].flag # 0

\* The methods of Entry.
EntryOps == {"or_insert", "or_insert_with"}

C28_RawAndContainerShareState ==
    \A s \in Slots :
        LET c == EntryAt(s)
            viaContainer == IF kind = "RtMap"
                            THEN [shared    |-> RtMap_try_borrow(map, s).res,
                                  exclusive |-> RtMap_try_borrow_mut(map, s).res]
                            ELSE [shared    |-> RtVec_try_borrow(vec, s).res,
                                  exclusive |-> RtVec_try_borrow_mut(vec, s).res]
            viaRaw == [shared    |-> Cell_try_borrow(GetRaw(s).cell).res,
                       exclusive |-> Cell_try_borrow_mut(GetRaw(s).cell).res]
        IN  /\ raw[s].ref_muts > 0 =>
                /\ viaContainer.shared = "BorrowConflictImm"
                /\ viaContainer.exclusive = "BorrowConflictMut"
            /\ raw[s].refs > 0 => viaContainer.exclusive = "BorrowConflictMut"
            /\ c.ref_muts > 0 =>
                /\ viaRaw.shared = "BorrowConflictImm"
                /\ viaRaw.exclusive = "BorrowConflictMut"
            /\ c.refs > 0 => viaRaw.exclusive = "BorrowConflictMut"
            /\ c.ref_muts + raw[s].ref_muts <= 1
            /\ c.ref_muts + raw[s].ref_muts = 1 => c.refs + raw[s].refs = 0
            /\ c.flag = IF c.ref_muts + raw[s].ref_muts = 1
                        THEN UsizeMax
                        ELSE c.refs + raw[s].refs

\* Right after an exclusive guard was taken on the raw cell, try_borrow_mut
\* through the container has failed on that entry, the guard still alive.
C28_Witness ==
    /\ last.at \in Slots
    /\ prev = "raw_try_borrow_mut"
    /\ last.op = "try_borrow_mut"
    /\ last.res = "BorrowConflictMut"
    /\ raw[last.at].ref_muts = 1

\* C29: the count of shared borrows never reaches the exclusive sentinel.
\* With the flag an unsigned integer of FlagBits bits whose maximum is the
\* sentinel, after any sequence of shared acquisitions and Ref::clone calls on
\* an entry whose shared guards are all alive, the entry is neither read as
\* exclusively borrowed (a shared borrow refused) nor as unborrowed (an
\* exclusive borrow granted).
C29_SharedCountBelowSentinel ==
    \A s \in Slots :
        EntryAt(s).refs > 0 =>
            /\ Cell_try_borrow(EntryAt(s)).res # "BorrowConflictImm"
            /\ Cell_try_borrow_mut(EntryAt(s)).res # "Ok"

=============================================================================
